---- MODULE Spec2Model ----
(***************************************************************************)
(* Stock ledger and inventory consistency of gestor-de-estoque.            *)
(*                                                                         *)
(* The model follows ProductService (createProduct, updateProduct,         *)
(* deleteProduct, updateStock, bulkUpdateProducts and the lookups) and     *)
(* the transferStock Firestore transaction.                                *)
(* Every request is run by a worker; a worker gives up                     *)
(* control at each `await`, so the steps of concurrent requests            *)
(* interleave exactly at the storage calls.                                *)
(***************************************************************************)
EXTENDS Integers, Sequences, FiniteSets, TLC

(* ------------------------------ bounds --------------------------------- *)

\* Requests started in one behaviour.
MaxOps == 2

\* Largest stock quantity a request may ask for.
MaxStock == 2

(* ------------------------------ domains -------------------------------- *)

Workers == {"w1", "w2"}

\* Document ids uuidv4() can hand out.
Ids == {"p1", "p2", "p3"}

NoId == "none"

\* SKUs a request can carry.
SKUs == {"s1", "s2"}

NoBarcode == "none"

Barcodes == {"b1"}

\* A field a partial update does not carry.
Absent == "absent"

\* inventory objects a create request can carry (Omit<ProductInventory,'currentStock'>).
Inventories == {[minStock |-> 1, maxStock |-> 2]}

\* inventory objects an update request can carry.
PatchInventories == {[minStock |-> 2, maxStock |-> 0]}

NoInventory == [minStock |-> -1, maxStock |-> -1]

\* The partial updates a bulk request can carry for a product: a new SKU, or new
\* inventory settings.
BulkData ==
  {[sku |-> "s1", barcode |-> Absent, inventory |-> NoInventory]} \cup
  {[sku |-> Absent, barcode |-> Absent, inventory |-> inv] : inv \in PatchInventories}

\* The entries {id, data} of the `updates` array.
BulkItems ==
  {[id |-> i, sku |-> u.sku, barcode |-> u.barcode, inventory |-> u.inventory] :
     i \in Ids, u \in BulkData}

\* The `updates` arrays of a bulk request: one or two entries.
BulkUpdates == {<<u>> : u \in BulkItems} \cup {<<u, v>> : u \in BulkItems, v \in BulkItems}

\* newStock values handed to updateStock (a plain `number` in the code).
NewStockValues == (-1)..MaxStock

\* quantity values handed to transferStock (a plain `number` in the code).
Quantities == (-1)..MaxStock

(* ------------------------------ documents ------------------------------ *)

\* A slot of the products collection that holds no document.
NoDoc ==
  [exists |-> FALSE, sku |-> "none", barcode |-> NoBarcode,
   currentStock |-> 0, hasStock |-> FALSE, minStock |-> 0, maxStock |-> 0,
   isActive |-> FALSE, createdAt |-> 0, updatedAt |-> 0, createdBy |-> "none"]

\* The worker-local frame of a request.
NoLocal ==
  [op |-> "none", productId |-> NoId, toId |-> NoId,
   sku |-> Absent, barcode |-> Absent, inventory |-> NoInventory,
   newStock |-> 0, quantity |-> 0, delta |-> 0, product |-> NoDoc, written |-> NoDoc,
   updates |-> <<>>, batch |-> <<>>, timestamp |-> 0, returned |-> {},
   acquired |-> <<>>, evaluated |-> FALSE,
   result |-> "none",
   before |-> [products |-> [i \in Ids |-> NoDoc], stockMovements |-> <<>>,
               auditLogs |-> <<>>]]

VARIABLES
  products,        \* collection 'products': id -> document
  stockMovements,  \* collection 'stockMovements', in commit order
  stockAlerts,     \* collection 'stockAlerts', in creation order
  auditLogs,       \* collection 'auditLogs', in commit order
  pc,              \* per worker: the await it is suspended at, or "idle"
  local,           \* per worker: the frame of its current (or last) request
  clock,           \* Timestamp.now(); ticks once per request
  deltaSum,        \* per product: sum of the signed deltas of committed stock mutations
  started          \* requests started in this behaviour

vars ==
  <<products, stockMovements, stockAlerts, auditLogs, pc, local, clock, deltaSum, started>>

(* ------------------------------ helpers -------------------------------- *)

\* `inventory.currentStock || 0`, and every numeric read of a missing field.
StockOf(d) == IF d.hasStock THEN d.currentStock ELSE 0

\* The SKU query without the isActive filter.
ActiveWithSKU_AnyStatus(sku) ==
  {i \in Ids : products[i].exists /\ products[i].sku = sku}

\* .where(field == value).where('isActive' == true): the ids the query returns.
ActiveWithSKU(sku) ==
  {i \in Ids : products[i].exists /\ products[i].isActive /\ products[i].sku = sku}

ActiveWithBarcode(barcode) ==
  {i \in Ids : products[i].exists /\ products[i].isActive /\ products[i].barcode = barcode}

\* .where('isActive' == true): the ids of the listing queries.
ActiveProducts == {i \in Ids : products[i].exists /\ products[i].isActive}

\* validateUniqueSKU with the query on the wrong field.
validateUniqueSKU_WrongField(sku, excludeProductId) ==
  ActiveWithBarcode(sku) \ {excludeProductId} = {}

\* validateUniqueSKU: TRUE when the check passes (no other active product holds the sku).
validateUniqueSKU(sku, excludeProductId) ==
  ActiveWithSKU(sku) \ {excludeProductId} = {}

\* validateUniqueBarcode: TRUE when the check passes.
validateUniqueBarcode(barcode, excludeProductId) ==
  ActiveWithBarcode(barcode) \ {excludeProductId} = {}

\* uuidv4(): an id no document uses.
FreshIds == {i \in Ids : ~products[i].exists}

\* auditService.log(...): one appended entry.
AuditEntry(userId, action, resourceId, before, after) ==
  [userId |-> userId, action |-> action, resource |-> "product",
   resourceId |-> resourceId, before |-> before, after |-> after]

\* A worker takes a new request when it is not running one; the request is counted.
CanStart(w) == pc[w] = "idle" /\ started' = started + 1

\* The frame of a request that starts now; `before` remembers the store it started on.
Frame(op) ==
  [NoLocal EXCEPT !.op = op,
                  !.before = [products |-> products, stockMovements |-> stockMovements,
                              auditLogs |-> auditLogs]]

\* The request returns (res = "ok") or throws res.
Finish(w, loc, res) ==
  /\ pc' = [pc EXCEPT ![w] = "idle"]
  /\ local' = [local EXCEPT ![w] = [loc EXCEPT !.result = res]]

(* --------------------- StockAlertService.checkStockLevels -------------- *)
(* The service is imported by ProductService but its file is not part of   *)
(* the sources; it is modelled from section 4.3 of the specification.      *)

Alert(pid, type, priority, d, now) ==
  [productId |-> pid, type |-> type, priority |-> priority, status |-> "active",
   thresholds |-> [current |-> StockOf(d), minimum |-> d.minStock, maximum |-> d.maxStock],
   createdAt |-> now, updatedAt |-> now]

\* Positions of the active alerts of a product with the given type.
ActiveAlerts(alerts, pid, type) ==
  {k \in DOMAIN alerts :
     alerts[k].productId = pid /\ alerts[k].type = type /\ alerts[k].status = "active"}

\* Re-affirm an active alert: thresholds snapshot and timestamp are refreshed.
Refresh(a, type, priority, d, now) ==
  [a EXCEPT !.type = type, !.priority = priority,
            !.thresholds = [current |-> StockOf(d), minimum |-> d.minStock,
                            maximum |-> d.maxStock],
            !.updatedAt = now]

Resolve(a, now) == [a EXCEPT !.status = "resolved", !.updatedAt = now]

\* "ensure an active alert" that never looks for the existing one.
EnsureActive_AlwaysCreate(alerts, pid, type, priority, d, now) ==
  Append(alerts, Alert(pid, type, priority, d, now))

\* "ensure an active alert" that reopens a resolved or ignored alert of the type.
EnsureActive_Reopen(alerts, pid, type, priority, d, now) ==
  LET old == {k \in DOMAIN alerts : alerts[k].productId = pid /\ alerts[k].type = type} IN
    IF old # {}
      THEN [k \in DOMAIN alerts |->
              IF k \in old
                THEN [Refresh(alerts[k], type, priority, d, now) EXCEPT !.status = "active"]
                ELSE alerts[k]]
      ELSE Append(alerts, Alert(pid, type, priority, d, now))

\* "ensure an active alert of this type": refresh the existing one, else create one.
EnsureActive(alerts, pid, type, priority, d, now) ==
  LET act == ActiveAlerts(alerts, pid, type) IN
    IF act # {}
      THEN [k \in DOMAIN alerts |->
              IF k \in act THEN Refresh(alerts[k], type, priority, d, now) ELSE alerts[k]]
      ELSE Append(alerts, Alert(pid, type, priority, d, now))

\* Rule 1 that ignores the active low_stock alert.
EnsureOutOfStock_Duplicate(alerts, pid, d, now) ==
  EnsureActive(alerts, pid, "out_of_stock", "critical", d, now)

\* Rule 1: an active low_stock alert is converted into the out_of_stock alert;
\* when an out_of_stock alert is already active the low_stock one is closed,
\* so that no duplicate results.
EnsureOutOfStock(alerts, pid, d, now) ==
  LET out == ActiveAlerts(alerts, pid, "out_of_stock")
      low == ActiveAlerts(alerts, pid, "low_stock")
  IN  IF out # {}
        THEN [k \in DOMAIN alerts |->
                IF k \in out THEN Refresh(alerts[k], "out_of_stock", "critical", d, now)
                ELSE IF k \in low THEN Resolve(alerts[k], now)
                ELSE alerts[k]]
      ELSE IF low # {}
        THEN [k \in DOMAIN alerts |->
                IF k \in low THEN Refresh(alerts[k], "out_of_stock", "critical", d, now)
                ELSE alerts[k]]
      ELSE Append(alerts, Alert(pid, "out_of_stock", "critical", d, now))

\* Rule 4: every active alert of the product is resolved.
ResolveAll(alerts, pid, now) ==
  [k \in DOMAIN alerts |->
     IF alerts[k].productId = pid /\ alerts[k].status = "active"
       THEN Resolve(alerts[k], now) ELSE alerts[k]]

\* Rule 2 without the scaling of the priority.
LowStockPriority_AlwaysHigh(d) == "high"

LowStockPriority(d) == IF 2 * d.currentStock <= d.minStock THEN "critical" ELSE "high"

\* evaluate(product, previousActiveAlerts): the decision order, first match wins.
Evaluate(alerts, pid, d, now) ==
  IF d.hasStock /\ d.currentStock = 0
    THEN EnsureOutOfStock(alerts, pid, d, now)
  ELSE IF d.hasStock /\ 0 < d.currentStock /\ d.currentStock <= d.minStock
    THEN EnsureActive(alerts, pid, "low_stock", LowStockPriority(d), d, now)
  ELSE IF d.hasStock /\ d.maxStock > 0 /\ d.currentStock >= d.maxStock
    THEN EnsureActive(alerts, pid, "overstock", "low", d, now)
  ELSE ResolveAll(alerts, pid, now)

\* checkStockLevels(productId): loads the product and stores the transitions.
checkStockLevels(pid) ==
  stockAlerts' = IF products[pid].exists
                   THEN Evaluate(stockAlerts, pid, products[pid], clock)
                   ELSE stockAlerts

\* An operator's request to ignore an active alert (section 4.5: active ->
\* ignored, manual); it is counted like every request.
IgnoreAlert(k) ==
  /\ stockAlerts[k].status = "active"
  /\ started' = started + 1
  /\ stockAlerts' = [stockAlerts EXCEPT ![k].status = "ignored", ![k].updatedAt = clock]
  /\ UNCHANGED <<products, stockMovements, auditLogs, pc, local, clock, deltaSum>>

(* --------------------- ProductService.createProduct -------------------- *)

\* createProduct that takes the initial stock from the request's inventory.
NewProduct_StockFromRequest(w, loc, now) ==
  [exists |-> TRUE, sku |-> loc.sku, barcode |-> loc.barcode,
   currentStock |-> loc.inventory.minStock, hasStock |-> TRUE,
   minStock |-> loc.inventory.minStock, maxStock |-> loc.inventory.maxStock,
   isActive |-> TRUE, createdAt |-> now, updatedAt |-> now, createdBy |-> w]

NewProduct(w, loc, now) ==
  [exists |-> TRUE, sku |-> loc.sku, barcode |-> loc.barcode,
   currentStock |-> 0, hasStock |-> TRUE,
   minStock |-> loc.inventory.minStock, maxStock |-> loc.inventory.maxStock,
   isActive |-> TRUE, createdAt |-> now, updatedAt |-> now, createdBy |-> w]

\* Creates in flight that have not yet taken their document id.
PendingCreates == {w \in Workers : pc[w] \in {"cp_validateBarcode", "cp_set"}}

\* Call, and the SKU query of validateUniqueSKU.
CreateProduct(w, sku, barcode, inv) ==
  /\ CanStart(w)
  /\ Cardinality(FreshIds) > Cardinality(PendingCreates)
  /\ clock' = clock + 1
  /\ LET loc == [Frame("createProduct") EXCEPT !.sku = sku,
                                !.barcode = barcode, !.inventory = inv]
     IN  IF ~validateUniqueSKU(sku, NoId)
           THEN Finish(w, loc, "ConflictError")
           ELSE /\ pc' = [pc EXCEPT ![w] =
                            IF barcode # NoBarcode THEN "cp_validateBarcode" ELSE "cp_set"]
                /\ local' = [local EXCEPT ![w] = [loc EXCEPT !.result = "pending"]]
  /\ UNCHANGED <<products, stockMovements, stockAlerts, auditLogs, deltaSum>>

\* The barcode query of validateUniqueBarcode.
CreateValidateBarcode(w) ==
  /\ pc[w] = "cp_validateBarcode"
  /\ IF ~validateUniqueBarcode(local[w].barcode, NoId)
       THEN Finish(w, local[w], "ConflictError")
       ELSE /\ pc' = [pc EXCEPT ![w] = "cp_set"]
            /\ UNCHANGED local
  /\ UNCHANGED <<products, stockMovements, stockAlerts, auditLogs, clock, deltaSum, started>>

\* db.collection('products').doc(productId).set(product)
CreateSet(w) ==
  /\ pc[w] = "cp_set"
  /\ LET id == CHOOSE i \in FreshIds : TRUE
         product == NewProduct(w, local[w], clock)
     IN  /\ products' = [products EXCEPT ![id] = product]
         /\ deltaSum' = [deltaSum EXCEPT ![id] = 0]
         /\ local' = [local EXCEPT ![w].productId = id, ![w].written = product]
  /\ pc' = [pc EXCEPT ![w] = "cp_audit"]
  /\ UNCHANGED <<stockMovements, stockAlerts, auditLogs, clock, started>>

\* auditService.log({action: 'create', ...}) and the return.
CreateAudit(w) ==
  /\ pc[w] = "cp_audit"
  /\ auditLogs' = Append(auditLogs,
                    AuditEntry(w, "create", local[w].productId, NoDoc, local[w].written))
  /\ Finish(w, local[w], "ok")
  /\ UNCHANGED <<products, stockMovements, stockAlerts, clock, deltaSum, started>>

(* --------------------- ProductService.updateStock ---------------------- *)

\* Call, and the read of getProductById.
UpdateStock_AuditBeforeWrite(w, productId, newStock) ==
  /\ CanStart(w)
  /\ clock' = clock + 1
  /\ LET loc == [Frame("updateStock") EXCEPT !.productId = productId,
                                !.newStock = newStock]
     IN  IF ~products[productId].exists
           THEN Finish(w, loc, "NotFoundError") /\ UNCHANGED auditLogs
           ELSE /\ pc' = [pc EXCEPT ![w] = "us_set"]
                /\ local' = [local EXCEPT ![w] =
                     [loc EXCEPT !.product = products[productId],
                                 !.delta = newStock - StockOf(products[productId]),
                                 !.result = "pending"]]
                /\ auditLogs' = Append(auditLogs,
                     AuditEntry(w, "update", productId, products[productId],
                                products[productId]))
  /\ UNCHANGED <<products, stockMovements, stockAlerts, deltaSum>>

UpdateStock(w, productId, newStock) ==
  /\ CanStart(w)
  /\ clock' = clock + 1
  /\ LET loc == [Frame("updateStock") EXCEPT !.productId = productId,
                                !.newStock = newStock]
     IN  IF ~products[productId].exists
           THEN Finish(w, loc, "NotFoundError")
           ELSE /\ pc' = [pc EXCEPT ![w] = "us_set"]
                /\ local' = [local EXCEPT ![w] =
                     [loc EXCEPT !.product = products[productId],
                                 !.delta = newStock - StockOf(products[productId]),
                                 !.result = "pending"]]
  /\ UNCHANGED <<products, stockMovements, stockAlerts, auditLogs, deltaSum>>

\* The document updateStock writes: the product it read, with the new quantity.
StockUpdated(product, newStock, now) ==
  [product EXCEPT !.currentStock = newStock, !.hasStock = TRUE, !.updatedAt = now]

\* db.collection('products').doc(productId).set(updatedProduct)
UpdateStockSet(w) ==
  /\ pc[w] = "us_set"
  /\ LET updatedProduct == StockUpdated(local[w].product, local[w].newStock, clock)
     IN  /\ products' = [products EXCEPT ![local[w].productId] = updatedProduct]
         /\ local' = [local EXCEPT ![w].written = updatedProduct]
  /\ deltaSum' = [deltaSum EXCEPT ![local[w].productId] = @ + local[w].delta]
  /\ pc' = [pc EXCEPT ![w] = "us_alerts"]
  /\ UNCHANGED <<stockMovements, stockAlerts, auditLogs, clock, started>>

\* stockAlertService.checkStockLevels(productId)
UpdateStockAlerts(w) ==
  /\ pc[w] = "us_alerts"
  /\ checkStockLevels(local[w].productId)
  /\ local' = [local EXCEPT ![w].evaluated = TRUE]
  /\ pc' = [pc EXCEPT ![w] = "us_audit"]
  /\ UNCHANGED <<products, stockMovements, auditLogs, clock, deltaSum, started>>

\* auditService.log({action: 'update', changes: {before: {stock}, after: {stock}}}) and the return.
UpdateStockAudit(w) ==
  /\ pc[w] = "us_audit"
  /\ auditLogs' = Append(auditLogs,
                    AuditEntry(w, "update", local[w].productId,
                               [stock |-> StockOf(local[w].product)],
                               [stock |-> local[w].newStock]))
  /\ Finish(w, local[w], "ok")
  /\ UNCHANGED <<products, stockMovements, stockAlerts, clock, deltaSum, started>>

\* checkStockLevels rejects: the catch block of updateStock logs and rethrows.
UpdateStockAlertsFail(w) ==
  /\ pc[w] = "us_alerts"
  /\ Finish(w, local[w], "Error")
  /\ UNCHANGED <<products, stockMovements, stockAlerts, auditLogs, clock, deltaSum, started>>

\* auditService.log rejects: the catch block of updateStock logs and rethrows.
UpdateStockAuditFail(w) ==
  /\ pc[w] = "us_audit"
  /\ Finish(w, local[w], "Error")
  /\ UNCHANGED <<products, stockMovements, stockAlerts, auditLogs, clock, deltaSum, started>>

(* --------------------- ProductService.updateProduct -------------------- *)

\* The awaits of updateProduct that follow the read, in order.
AfterRead(loc, current) ==
  IF loc.sku # Absent /\ loc.sku # current.sku THEN "up_validateSKU"
  ELSE IF loc.barcode # Absent /\ loc.barcode # current.barcode THEN "up_validateBarcode"
  ELSE "up_set"

AfterValidateSKU(loc, current) ==
  IF loc.barcode # Absent /\ loc.barcode # current.barcode THEN "up_validateBarcode"
  ELSE "up_set"

\* {...currentProduct, ...updateData, id, updatedAt, createdAt, createdBy}: a shallow
\* merge, so an inventory object in the patch replaces the stored one whole, and
\* the patch's inventory type has no currentStock.
Merged(current, loc, now) ==
  [current EXCEPT
     !.sku = IF loc.sku # Absent THEN loc.sku ELSE @,
     !.barcode = IF loc.barcode # Absent THEN loc.barcode ELSE @,
     !.minStock = IF loc.inventory # NoInventory THEN loc.inventory.minStock ELSE @,
     !.maxStock = IF loc.inventory # NoInventory THEN loc.inventory.maxStock ELSE @,
     !.hasStock = IF loc.inventory # NoInventory THEN FALSE ELSE @,
     !.currentStock = IF loc.inventory # NoInventory THEN 0 ELSE @,
     !.updatedAt = now]

\* Call, and the read of getProductById.
UpdateProduct(w, productId, sku, barcode, inv) ==
  /\ CanStart(w)
  /\ clock' = clock + 1
  /\ LET loc == [Frame("updateProduct") EXCEPT !.productId = productId,
                                !.sku = sku, !.barcode = barcode, !.inventory = inv]
     IN  IF ~products[productId].exists
           THEN Finish(w, loc, "NotFoundError")
           ELSE /\ pc' = [pc EXCEPT ![w] = AfterRead(loc, products[productId])]
                /\ local' = [local EXCEPT ![w] =
                     [loc EXCEPT !.product = products[productId], !.result = "pending"]]
  /\ UNCHANGED <<products, stockMovements, stockAlerts, auditLogs, deltaSum>>

\* validateUniqueSKU(updateData.sku, productId)
UpdateValidateSKU(w) ==
  /\ pc[w] = "up_validateSKU"
  /\ IF ~validateUniqueSKU(local[w].sku, local[w].productId)
       THEN Finish(w, local[w], "ConflictError")
       ELSE /\ pc' = [pc EXCEPT ![w] = AfterValidateSKU(local[w], local[w].product)]
            /\ UNCHANGED local
  /\ UNCHANGED <<products, stockMovements, stockAlerts, auditLogs, clock, deltaSum, started>>

\* validateUniqueBarcode(updateData.barcode, productId)
UpdateValidateBarcode(w) ==
  /\ pc[w] = "up_validateBarcode"
  /\ IF ~validateUniqueBarcode(local[w].barcode, local[w].productId)
       THEN Finish(w, local[w], "ConflictError")
       ELSE /\ pc' = [pc EXCEPT ![w] = "up_set"]
            /\ UNCHANGED local
  /\ UNCHANGED <<products, stockMovements, stockAlerts, auditLogs, clock, deltaSum, started>>

\* db.collection('products').doc(productId).set(updatedProduct)
UpdateSet(w) ==
  /\ pc[w] = "up_set"
  /\ LET updatedProduct == Merged(local[w].product, local[w], clock)
     IN  /\ products' = [products EXCEPT ![local[w].productId] = updatedProduct]
         /\ local' = [local EXCEPT ![w].written = updatedProduct]
  /\ pc' = [pc EXCEPT ![w] =
              IF local[w].inventory # NoInventory THEN "up_alerts" ELSE "up_audit"]
  /\ UNCHANGED <<stockMovements, stockAlerts, auditLogs, clock, deltaSum, started>>

\* stockAlertService.checkStockLevels(productId), when the patch carries inventory.
UpdateAlerts(w) ==
  /\ pc[w] = "up_alerts"
  /\ checkStockLevels(local[w].productId)
  /\ local' = [local EXCEPT ![w].evaluated = TRUE]
  /\ pc' = [pc EXCEPT ![w] = "up_audit"]
  /\ UNCHANGED <<products, stockMovements, auditLogs, clock, deltaSum, started>>

\* auditService.log({action: 'update', changes: {before, after}}) and the return.
UpdateAudit(w) ==
  /\ pc[w] = "up_audit"
  /\ auditLogs' = Append(auditLogs,
                    AuditEntry(w, "update", local[w].productId, local[w].product,
                               local[w].written))
  /\ Finish(w, local[w], "ok")
  /\ UNCHANGED <<products, stockMovements, stockAlerts, clock, deltaSum, started>>

\* checkStockLevels rejects: the catch block of updateProduct logs and rethrows.
UpdateAlertsFail(w) ==
  /\ pc[w] = "up_alerts"
  /\ Finish(w, local[w], "Error")
  /\ UNCHANGED <<products, stockMovements, stockAlerts, auditLogs, clock, deltaSum, started>>

\* auditService.log rejects: the catch block of updateProduct logs and rethrows.
UpdateAuditFail(w) ==
  /\ pc[w] = "up_audit"
  /\ Finish(w, local[w], "Error")
  /\ UNCHANGED <<products, stockMovements, stockAlerts, auditLogs, clock, deltaSum, started>>

(* --------------------- ProductService.deleteProduct -------------------- *)

\* The stock check of deleteProduct, off by one.
HasStock_OffByOne(product) == product.hasStock /\ product.currentStock > 1

\* product.inventory.currentStock > 0
HasStock(product) == product.hasStock /\ product.currentStock > 0

\* {...product, isActive: false, updatedAt}
SoftDeleted(product, now) == [product EXCEPT !.isActive = FALSE, !.updatedAt = now]

\* Call, the read of getProductById and the stock check.
DeleteProduct(w, productId) ==
  /\ CanStart(w)
  /\ clock' = clock + 1
  /\ LET loc == [Frame("deleteProduct") EXCEPT !.productId = productId]
     IN  IF ~products[productId].exists
           THEN Finish(w, loc, "NotFoundError")
         ELSE IF HasStock(products[productId])
           THEN Finish(w, [loc EXCEPT !.product = products[productId]], "ConflictError")
         ELSE /\ pc' = [pc EXCEPT ![w] = "dp_set"]
              /\ local' = [local EXCEPT ![w] =
                   [loc EXCEPT !.product = products[productId], !.result = "pending"]]
  /\ UNCHANGED <<products, stockMovements, stockAlerts, auditLogs, deltaSum>>

\* db.collection('products').doc(productId).set(updatedProduct)
DeleteSet(w) ==
  /\ pc[w] = "dp_set"
  /\ LET updatedProduct == SoftDeleted(local[w].product, clock)
     IN  /\ products' = [products EXCEPT ![local[w].productId] = updatedProduct]
         /\ local' = [local EXCEPT ![w].written = updatedProduct]
  /\ pc' = [pc EXCEPT ![w] = "dp_audit"]
  /\ UNCHANGED <<stockMovements, stockAlerts, auditLogs, clock, deltaSum, started>>

\* auditService.log({action: 'delete', changes: {before, after}}) and the return.
DeleteAudit(w) ==
  /\ pc[w] = "dp_audit"
  /\ auditLogs' = Append(auditLogs,
                    AuditEntry(w, "delete", local[w].productId, local[w].product,
                               local[w].written))
  /\ Finish(w, local[w], "ok")
  /\ UNCHANGED <<products, stockMovements, stockAlerts, clock, deltaSum, started>>

(* --------------------- ProductService.getProductById ------------------- *)

\* Call, read and return; the product read is kept in the frame.
GetProductById(w, productId) ==
  /\ CanStart(w)
  /\ LET loc == [Frame("getProductById") EXCEPT !.productId = productId]
     IN  IF ~products[productId].exists
           THEN Finish(w, loc, "NotFoundError")
           ELSE Finish(w, [loc EXCEPT !.product = products[productId]], "ok")
  /\ UNCHANGED <<products, stockMovements, stockAlerts, auditLogs, clock, deltaSum>>

(* --------------------- ProductService lookups -------------------------- *)

\* A query with .limit(1): NotFoundError when it is empty, else one of its documents.
LookupOne(w, op, matches) ==
  /\ CanStart(w)
  /\ IF matches = {}
       THEN Finish(w, Frame(op), "NotFoundError")
       ELSE \E i \in matches : Finish(w, [Frame(op) EXCEPT !.returned = {i}], "ok")
  /\ UNCHANGED <<products, stockMovements, stockAlerts, auditLogs, clock, deltaSum>>

\* A listing: the documents the query and the client-side filter leave.
LookupAll(w, op, matches) ==
  /\ CanStart(w)
  /\ Finish(w, [Frame(op) EXCEPT !.returned = matches], "ok")
  /\ UNCHANGED <<products, stockMovements, stockAlerts, auditLogs, clock, deltaSum>>

GetProductBySKU(w, sku) == LookupOne(w, "getProductBySKU", ActiveWithSKU(sku))

GetProductByBarcode(w, barcode) ==
  LookupOne(w, "getProductByBarcode", ActiveWithBarcode(barcode))

\* getProducts with no filter and the default page.
GetProducts(w) == LookupAll(w, "getProducts", ActiveProducts)

\* searchProducts: the active products whose searchable text holds the term
\* (of the modelled fields, the sku and the barcode).
SearchProducts(w, term) ==
  LookupAll(w, "searchProducts",
            {i \in ActiveProducts : products[i].sku = term \/ products[i].barcode = term})

\* getLowStockProducts: the active products with currentStock <= minStock.
GetLowStockProducts(w) ==
  LookupAll(w, "getLowStockProducts",
            {i \in ActiveProducts :
               products[i].hasStock /\ products[i].currentStock <= products[i].minStock})

(* --------------------- ProductService.bulkUpdateProducts --------------- *)

\* One turn of the loop: getProductById(update.id), then batch.set of the merged
\* document.  A NotFoundError lands in the catch block, which throws DatabaseError.
\* Gives the frame and the await the request is at next.
BulkRead(loc) ==
  LET update == loc.updates[Len(loc.batch) + 1]
      currentProduct == products[update.id]
      batch == Append(loc.batch,
                      [id |-> update.id, doc |-> Merged(currentProduct, update, loc.timestamp)])
  IN  IF ~currentProduct.exists
        THEN [pc |-> "idle", loc |-> [loc EXCEPT !.result = "DatabaseError"]]
        ELSE [pc |-> IF Len(batch) = Len(loc.updates) THEN "bu_commit" ELSE "bu_read",
              loc |-> [loc EXCEPT !.batch = batch, !.result = "pending"]]

\* The documents after the batch's sets, applied in the order they were queued.
RECURSIVE Committed(_, _)
Committed(docs, batch) ==
  IF batch = <<>> THEN docs
  ELSE Committed([docs EXCEPT ![Head(batch).id] = Head(batch).doc], Tail(batch))

\* Call, Timestamp.now() and the first read of the loop.
BulkUpdateProducts(w, updates) ==
  /\ CanStart(w)
  /\ clock' = clock + 1
  /\ LET loc == [Frame("bulkUpdateProducts") EXCEPT !.updates = updates,
                                !.timestamp = clock']
         read == BulkRead(loc)
     IN  /\ pc' = [pc EXCEPT ![w] = read.pc]
         /\ local' = [local EXCEPT ![w] = read.loc]
  /\ UNCHANGED <<products, stockMovements, stockAlerts, auditLogs, deltaSum>>

\* The read of a later turn of the loop.
BulkNextRead(w) ==
  /\ pc[w] = "bu_read"
  /\ LET read == BulkRead(local[w])
     IN  /\ pc' = [pc EXCEPT ![w] = read.pc]
         /\ local' = [local EXCEPT ![w] = read.loc]
  /\ UNCHANGED <<products, stockMovements, stockAlerts, auditLogs, clock, deltaSum, started>>

\* batch.commit() and the return: all sets at once, and no audit entry.
BulkCommit(w) ==
  /\ pc[w] = "bu_commit"
  /\ products' = Committed(products, local[w].batch)
  /\ Finish(w, local[w], "ok")
  /\ UNCHANGED <<stockMovements, stockAlerts, auditLogs, clock, deltaSum, started>>

(* --------------------- transferStock (Firestore transaction) ----------- *)

\* t.update(ref, {'inventory.currentStock': stock, updatedAt})
WithStock(d, stock, now) ==
  [d EXCEPT !.currentStock = stock, !.hasStock = TRUE, !.updatedAt = now]

\* The two t.update calls, applied in the order they are issued.
Transferred(docs, from, to, quantity, now) ==
  LET fromStock == StockOf(docs[from])
      toStock == StockOf(docs[to])
      first == [docs EXCEPT ![from] = WithStock(@, fromStock - quantity, now)]
  IN  [first EXCEPT ![to] = WithStock(@, toStock + quantity, now)]

\* t.set(movementRef, {fromProductId, toProductId, quantity, type: 'transfer', createdAt})
TransferMovement(from, to, quantity, now) ==
  [fromProductId |-> from, toProductId |-> to, quantity |-> quantity,
   type |-> "transfer", createdAt |-> now]

\* db.runTransaction: reads, checks and writes commit as one step.  The frame
\* keeps the order of the two t.get calls: fromProductRef, then toProductRef.
TransferStock(w, from, to, quantity) ==
  /\ CanStart(w)
  /\ clock' = clock + 1
  /\ pc' = pc
  /\ LET loc == [Frame("transferStock") EXCEPT !.productId = from, !.toId = to,
                                !.quantity = quantity, !.acquired = <<from, to>>]
     IN  IF ~products[from].exists \/ ~products[to].exists
           THEN /\ local' = [local EXCEPT ![w] = [loc EXCEPT !.result = "Error: Product not found"]]
                /\ UNCHANGED <<products, stockMovements, deltaSum>>
         ELSE IF StockOf(products[from]) < quantity
           THEN /\ local' = [local EXCEPT ![w] = [loc EXCEPT !.result = "Error: Insufficient stock"]]
                /\ UNCHANGED <<products, stockMovements, deltaSum>>
         ELSE /\ products' = Transferred(products, from, to, quantity, clock')
              /\ stockMovements' = Append(stockMovements,
                                          TransferMovement(from, to, quantity, clock'))
              /\ deltaSum' = [[deltaSum EXCEPT ![from] = @ - quantity]
                                EXCEPT ![to] = @ + quantity]
              /\ local' = [local EXCEPT ![w] = [loc EXCEPT !.result = "ok"]]
  /\ UNCHANGED <<stockAlerts, auditLogs>>

(* --------------------- Firestore rules: stockMovements ----------------- *)

\* Signed-in clients: one with hasPermission('stock', 'admin'), one without.
Clients == {[uid |-> "u1", stockAdmin |-> FALSE], [uid |-> "u2", stockAdmin |-> TRUE]}

\* `resource.data.createdBy`, absent on the movements transferStock writes.
CreatedByOf(m) == IF "createdBy" \in DOMAIN m THEN m.createdBy ELSE "none"

\* allow update: if request.auth != null &&
\*   (resource.data.createdBy == request.auth.uid || hasPermission('stock', 'admin'))
\* There is no rule for delete, so a delete is denied.
MovementWriteAllowed(kind, client, m) ==
  /\ kind = "update"
  /\ CreatedByOf(m) = client.uid \/ client.stockAdmin

\* A client writes a stored movement through the rules: an update replaces the
\* quantity, a delete removes the document.  The write is counted like a request.
ClientMovementWrite(client, kind, k, quantity) ==
  /\ k \in DOMAIN stockMovements
  /\ MovementWriteAllowed(kind, client, stockMovements[k])
  /\ started' = started + 1
  /\ stockMovements' =
       IF kind = "update"
         THEN [stockMovements EXCEPT ![k].quantity = quantity]
         ELSE SubSeq(stockMovements, 1, k - 1) \o
              SubSeq(stockMovements, k + 1, Len(stockMovements))
  /\ UNCHANGED <<products, stockAlerts, auditLogs, pc, local, clock, deltaSum>>

(* ------------------------------ Init ----------------------------------- *)

\* The store right after construction.
InitEmpty ==
  /\ products = [i \in Ids |-> NoDoc]
  /\ stockAlerts = <<>>
  /\ auditLogs = <<>>
  /\ clock = 0
  /\ deltaSum = [i \in Ids |-> 0]

\* The store after createProduct(s1, b1), createProduct(s2) and updateStock(p1, 1),
\* run one after the other by w1.
SeedP1 == NewProduct("w1", [sku |-> "s1", barcode |-> "b1",
                            inventory |-> [minStock |-> 1, maxStock |-> 2]], 1)

SeedP2 == NewProduct("w1", [sku |-> "s2", barcode |-> NoBarcode,
                            inventory |-> [minStock |-> 1, maxStock |-> 2]], 2)

InitSeeded ==
  /\ products = [i \in Ids |->
                   IF i = "p1" THEN StockUpdated(SeedP1, 1, 3)
                   ELSE IF i = "p2" THEN SeedP2 ELSE NoDoc]
  /\ stockAlerts = Evaluate(<<>>, "p1", StockUpdated(SeedP1, 1, 3), 3)
  /\ auditLogs = << AuditEntry("w1", "create", "p1", NoDoc, SeedP1),
                    AuditEntry("w1", "create", "p2", NoDoc, SeedP2),
                    AuditEntry("w1", "update", "p1", [stock |-> 0], [stock |-> 1]) >>
  /\ clock = 3
  /\ deltaSum = [i \in Ids |-> IF i = "p1" THEN 1 ELSE 0]

Init ==
  /\ InitEmpty \/ InitSeeded
  /\ stockMovements = <<>>
  /\ pc = [w \in Workers |-> "idle"]
  /\ local = [w \in Workers |-> NoLocal]
  /\ started = 0

(* ------------------------------ Next ----------------------------------- *)

\* The exploration stops taking requests after MaxOps of them.
Budget == started < MaxOps

AllIdle == \A w \in Workers : pc[w] = "idle"

\* The requests a worker can take.
Begin(w) ==
  \/ \E sku \in SKUs, barcode \in Barcodes \cup {NoBarcode}, inv \in Inventories :
       CreateProduct(w, sku, barcode, inv)
  \/ \E productId \in Ids, sku \in SKUs \cup {Absent}, barcode \in Barcodes \cup {Absent},
        inv \in PatchInventories \cup {NoInventory} :
       UpdateProduct(w, productId, sku, barcode, inv)
  \/ \E productId \in Ids : DeleteProduct(w, productId)
  \/ \E productId \in Ids, newStock \in NewStockValues : UpdateStock(w, productId, newStock)
  \/ \E from \in Ids, to \in Ids, quantity \in Quantities : TransferStock(w, from, to, quantity)

\* The next await of a running request.
Step(w) ==
  \/ CreateValidateBarcode(w)
  \/ CreateSet(w)
  \/ CreateAudit(w)
  \/ UpdateValidateSKU(w)
  \/ UpdateValidateBarcode(w)
  \/ UpdateSet(w)
  \/ UpdateAlerts(w)
  \/ UpdateAudit(w)
  \/ DeleteSet(w)
  \/ DeleteAudit(w)
  \/ UpdateStockSet(w)
  \/ UpdateStockAlerts(w)
  \/ UpdateStockAudit(w)

\* Request handlers run in parallel, one worker per request.
Next == \E w \in Workers : (Budget /\ Begin(w)) \/ Step(w)

Spec == Init /\ [][Next]_vars

\* The same requests, run one at a time by a single handler.
SeqWorker == "w1"

NextSeq == (Budget /\ Begin(SeqWorker)) \/ Step(SeqWorker)

SpecSeq == Init /\ [][NextSeq]_vars

\* The stock mutations alone, in parallel.
BeginStock(w) ==
  \/ \E productId \in Ids, newStock \in NewStockValues : UpdateStock(w, productId, newStock)
  \/ \E from \in Ids, to \in Ids, quantity \in Quantities : TransferStock(w, from, to, quantity)

StepStock(w) == UpdateStockSet(w) \/ UpdateStockAlerts(w) \/ UpdateStockAudit(w)

NextStock == \E w \in Workers : (Budget /\ BeginStock(w)) \/ StepStock(w)

SpecStock == Init /\ [][NextStock]_vars

\* The stock mutations under fair scheduling: a request that is suspended at an
\* await is resumed.
SpecStockFair == SpecStock /\ \A w \in Workers : WF_vars(StepStock(w))

\* The product ids of the seeded store.
SeededIds == {"p1", "p2"}

\* The requests that end in an alert evaluation, in parallel.
BeginAlerts(w) ==
  \/ \E productId \in SeededIds, newStock \in NewStockValues :
       UpdateStock(w, productId, newStock)
  \/ \E productId \in SeededIds, inv \in PatchInventories :
       UpdateProduct(w, productId, Absent, Absent, inv)

StepAlerts(w) == StepStock(w) \/ UpdateSet(w) \/ UpdateAlerts(w) \/ UpdateAudit(w)

NextAlerts == \E w \in Workers : (Budget /\ BeginAlerts(w)) \/ StepAlerts(w)

SpecAlerts == Init /\ [][NextAlerts]_vars

\* updateStock alone, in parallel.
NextUpdateStock ==
  \E w \in Workers :
    \/ Budget /\ \E productId \in Ids, newStock \in NewStockValues :
                   UpdateStock(w, productId, newStock)
    \/ StepStock(w)

SpecUpdateStock == Init /\ [][NextUpdateStock]_vars

\* minStock and maxStock values of the products the evaluator is run on.
Thresholds == 0..MaxStock

\* The store after createProduct(s1, inventory) and updateStock(p1, stock), run one
\* after the other by w1, for every inventory and stock in the bounds.
EvaluatedProduct(inv, stock) ==
  StockUpdated(NewProduct("w1", [sku |-> "s1", barcode |-> NoBarcode, inventory |-> inv], 1),
               stock, 2)

InitEvaluate ==
  /\ \E minStock \in Thresholds, maxStock \in Thresholds, stock \in 0..MaxStock :
       LET inv == [minStock |-> minStock, maxStock |-> maxStock]
           d == EvaluatedProduct(inv, stock)
       IN  /\ products = [i \in Ids |-> IF i = "p1" THEN d ELSE NoDoc]
           /\ stockAlerts = Evaluate(<<>>, "p1", d, 2)
           /\ auditLogs = << AuditEntry("w1", "create", "p1", NoDoc, EvaluatedProduct(inv, 0)),
                             AuditEntry("w1", "update", "p1", [stock |-> 0], [stock |-> stock]) >>
           /\ deltaSum = [i \in Ids |-> IF i = "p1" THEN stock ELSE 0]
  /\ clock = 2
  /\ stockMovements = <<>>
  /\ pc = [w \in Workers |-> "idle"]
  /\ local = [w \in Workers |-> NoLocal]
  /\ started = 0

\* updateStock calls on that product, one at a time, and the operator's ignore.
NextEvaluate ==
  \/ Budget /\ \E newStock \in NewStockValues : UpdateStock(SeqWorker, "p1", newStock)
  \/ StepStock(SeqWorker)
  \/ Budget /\ \E k \in DOMAIN stockAlerts : IgnoreAlert(k)

SpecEvaluate == InitEvaluate /\ [][NextEvaluate]_vars

\* updateStock and updateProduct, one call at a time, where the alert service and
\* the audit service may reject.
NextFailure ==
  \/ Budget /\ \E productId \in Ids, newStock \in NewStockValues :
                 UpdateStock(SeqWorker, productId, newStock)
  \/ Budget /\ \E productId \in Ids, inv \in PatchInventories \cup {NoInventory} :
                 UpdateProduct(SeqWorker, productId, Absent, Absent, inv)
  \/ StepAlerts(SeqWorker)
  \/ UpdateStockAlertsFail(SeqWorker)
  \/ UpdateStockAuditFail(SeqWorker)
  \/ UpdateAlertsFail(SeqWorker)
  \/ UpdateAuditFail(SeqWorker)

SpecFailure == Init /\ [][NextFailure]_vars

\* Every operation of the model, one call at a time.
BeginService(w) ==
  \/ Begin(w)
  \/ \E productId \in Ids : GetProductById(w, productId)
  \/ \E updates \in BulkUpdates : BulkUpdateProducts(w, updates)

StepService(w) == Step(w) \/ BulkNextRead(w) \/ BulkCommit(w)

NextService == (Budget /\ BeginService(SeqWorker)) \/ StepService(SeqWorker)

SpecService == Init /\ [][NextService]_vars

\* SKUs of create requests, one of them held by no seeded product.
CreateSKUs == SKUs \cup {"s3"}

\* Every inventory object a create request can carry within the bounds.
CreateInventories == [minStock : Thresholds, maxStock : Thresholds]

\* createProduct with any inventory and transfers between the seeded products,
\* one call at a time.
NextCreateAny ==
  \/ Budget /\ \E sku \in CreateSKUs, inv \in CreateInventories :
                 CreateProduct(SeqWorker, sku, NoBarcode, inv)
  \/ Budget /\ \E from \in SeededIds, to \in SeededIds, quantity \in Quantities :
                 TransferStock(SeqWorker, from, to, quantity)
  \/ CreateSet(SeqWorker)
  \/ CreateAudit(SeqWorker)

SpecCreateAny == Init /\ [][NextCreateAny]_vars

\* Creating, deleting and looking up products, with transfers between the seeded
\* products, one call at a time.
BeginLookup(w) ==
  \/ \E sku \in SKUs, barcode \in Barcodes \cup {NoBarcode}, inv \in Inventories :
       CreateProduct(w, sku, barcode, inv)
  \/ \E productId \in Ids : DeleteProduct(w, productId)
  \/ \E from \in SeededIds, to \in SeededIds, quantity \in Quantities :
       TransferStock(w, from, to, quantity)
  \/ \E sku \in SKUs : GetProductBySKU(w, sku)
  \/ \E barcode \in Barcodes : GetProductByBarcode(w, barcode)
  \/ GetProducts(w)
  \/ \E term \in SKUs \cup Barcodes : SearchProducts(w, term)
  \/ GetLowStockProducts(w)

StepLookup(w) ==
  \/ CreateValidateBarcode(w)
  \/ CreateSet(w)
  \/ CreateAudit(w)
  \/ DeleteSet(w)
  \/ DeleteAudit(w)

NextLookup == (Budget /\ BeginLookup(SeqWorker)) \/ StepLookup(SeqWorker)

SpecLookup == Init /\ [][NextLookup]_vars

\* Transfers between the seeded products, and the clients' writes to the ledger
\* that the storage rules let through.
NextLedger ==
  \/ Budget /\ \E w \in Workers, from \in SeededIds, to \in SeededIds, quantity \in Quantities :
                 TransferStock(w, from, to, quantity)
  \/ Budget /\ \E client \in Clients, kind \in {"update", "delete"},
                   k \in DOMAIN stockMovements, quantity \in Quantities :
                 ClientMovementWrite(client, kind, k, quantity)

SpecLedger == Init /\ [][NextLedger]_vars

(* ------------------------------ claims --------------------------------- *)

\* A request that has returned.
Returned(w) == pc[w] = "idle" /\ local[w].op # "none"

\* The stock movements that name product p, in commit order.
MovementsOf(p) ==
  SelectSeq(stockMovements, LAMBDA m : m.fromProductId = p \/ m.toProductId = p)

\* C1: the stored currentStock of every product is an integer >= 0 after any
\* sequence of stock mutations (a mutation that would make it negative is
\* rejected and writes nothing).
C1_StockNeverNegative ==
  \A p \in Ids :
    products[p].exists => products[p].hasStock /\ products[p].currentStock >= 0

\* C2: concurrent stock mutations of one product lose no update: whenever no
\* mutation of the product is between its read and its write, currentStock is
\* the initial stock plus the sum of the committed signed deltas.
C2_NoLostUpdate ==
  \A p \in Ids :
    (/\ products[p].exists
     /\ \A w \in Workers : ~(pc[w] = "us_set" /\ local[w].productId = p))
    => StockOf(products[p]) = deltaSum[p]

\* The ledger of p is a chain that ends at the product's current stock.
LedgerChain(docs, movements, p) ==
  LET ms == SelectSeq(movements, LAMBDA m : m.fromProductId = p \/ m.toProductId = p)
  IN  /\ \A k \in DOMAIN ms :
           /\ {"stockBefore", "stockAfter"} \subseteq DOMAIN ms[k]
           /\ k > 1 => ms[k].stockBefore = ms[k - 1].stockAfter
      /\ IF ms = <<>>
           THEN StockOf(docs[p]) = 0
           ELSE /\ "stockAfter" \in DOMAIN ms[Len(ms)]
                /\ StockOf(docs[p]) = ms[Len(ms)].stockAfter

\* C3: after every commit that touches a product or the ledger, the product's
\* movements form a chain (each stockBefore is the previous stockAfter) and its
\* currentStock is the stockAfter of the latest movement, 0 when there is none.
C3_LedgerChain ==
  [][\A p \in Ids :
       (products'[p].exists /\ (products'[p] # products[p] \/ stockMovements' # stockMovements))
       => LedgerChain(products', stockMovements', p)]_vars

\* The products whose stored stock a step changes.
StockChanged == {p \in Ids : products'[p].exists /\ StockOf(products'[p]) # StockOf(products[p])}

\* C4: the product write and the ledger append are one unit: a step changes the
\* stock of a product only together with exactly one new movement that names
\* it, and appends a movement only together with the stock change it records.
C4_WriteAndLedgerAtomic ==
  [][/\ StockChanged # {} =>
          /\ Len(stockMovements') = Len(stockMovements) + 1
          /\ \A p \in StockChanged :
               LET m == stockMovements'[Len(stockMovements')]
               IN  m.fromProductId = p \/ m.toProductId = p
     /\ stockMovements' # stockMovements => StockChanged # {}]_vars

\* C7: a stock-out of q on stock s (updateStock called with s - q, or the
\* decrement of transferStock) goes through exactly when 0 < q <= s: a request
\* with q > s, or with q <= 0 on the transfer path, never writes.
C7_StockOutGuard ==
  \A w \in Workers :
    /\ (/\ local[w].op = "updateStock"
        /\ local[w].product.exists
        /\ local[w].delta < 0
        /\ -local[w].delta > StockOf(local[w].product))
       => (pc[w] = "us_set" \/ local[w].result \notin {"ok", "pending"})
    /\ (/\ local[w].op = "transferStock"
        /\ local[w].quantity <= 0)
       => local[w].result # "ok"

\* C9: transferStock is all or nothing: a failed transfer (a missing product,
\* or a source holding less than q) changes no product and appends no
\* movement; a successful one takes q from the source, adds q to the
\* destination and appends the one transfer movement, in the same step.
C9_TransferAllOrNothing ==
  [][\A w \in Workers, from \in Ids, to \in Ids, q \in Quantities :
       TransferStock(w, from, to, q) =>
         IF local'[w].result = "ok"
           THEN /\ products[from].exists /\ products[to].exists
                /\ StockOf(products[from]) >= q
                /\ \A p \in Ids :
                     StockOf(products'[p]) =
                       StockOf(products[p]) - (IF p = from THEN q ELSE 0)
                                            + (IF p = to THEN q ELSE 0)
                /\ Len(stockMovements') = Len(stockMovements) + 1
           ELSE /\ products' = products
                /\ stockMovements' = stockMovements]_vars

\* createProduct alone, in parallel.
NextCreate ==
  \E w \in Workers :
    \/ Budget /\ \E sku \in SKUs, barcode \in Barcodes \cup {NoBarcode}, inv \in Inventories :
                   CreateProduct(w, sku, barcode, inv)
    \/ CreateValidateBarcode(w)
    \/ CreateSet(w)
    \/ CreateAudit(w)

SpecCreate == Init /\ [][NextCreate]_vars

\* Another active product of docs holds the sku (the barcode).
HeldSKU(docs, sku, self) ==
  \E i \in Ids \ {self} : docs[i].exists /\ docs[i].isActive /\ docs[i].sku = sku

HeldBarcode(docs, barcode, self) ==
  \E i \in Ids \ {self} : docs[i].exists /\ docs[i].isActive /\ docs[i].barcode = barcode

\* C5: concurrent createProduct calls with the same SKU (or barcode) exclude
\* each other: at no time do two active products share a SKU or a barcode.
C5_CreateMutualExclusion ==
  \A a \in Ids, b \in Ids :
    (a # b /\ products[a].exists /\ products[b].exists
       /\ products[a].isActive /\ products[b].isActive)
    => /\ products[a].sku # products[b].sku
       /\ products[a].barcode # NoBarcode => products[a].barcode # products[b].barcode

\* The request threw ConflictError and left products and audit log as it found them.
RejectedUnchanged(f) ==
  /\ f.result = "ConflictError"
  /\ products = f.before.products
  /\ auditLogs = f.before.auditLogs

\* C6: run one at a time, createProduct with a SKU or barcode held by an
\* active product, and updateProduct changing the SKU or barcode to one held by
\* another active product, fail with ConflictError and write neither product
\* nor audit entry; an update that keeps the product's own SKU succeeds.
C6_DuplicateRejected ==
  \A w \in Workers :
    Returned(w) =>
      LET f == local[w]
          docs == f.before.products
          own == docs[f.productId]
      IN  /\ (/\ f.op = "createProduct"
              /\ \/ HeldSKU(docs, f.sku, NoId)
                 \/ f.barcode # NoBarcode /\ HeldBarcode(docs, f.barcode, NoId))
             => RejectedUnchanged(f)
          /\ (/\ f.op = "updateProduct"
              /\ f.productId \in Ids /\ own.exists
              /\ \/ f.sku # Absent /\ f.sku # own.sku /\ HeldSKU(docs, f.sku, f.productId)
                 \/ /\ f.barcode # Absent /\ f.barcode # own.barcode
                    /\ HeldBarcode(docs, f.barcode, f.productId))
             => RejectedUnchanged(f)
          /\ (/\ f.op = "updateProduct"
              /\ f.productId \in Ids /\ own.exists
              /\ f.sku = own.sku
              /\ \/ f.barcode \in {Absent, own.barcode}
                 \/ ~HeldBarcode(docs, f.barcode, f.productId))
             => f.result = "ok"

\* C6 happens: a createProduct with a SKU held by an active product was rejected.
C6_Witness ==
  \E w \in Workers :
    /\ Returned(w)
    /\ local[w].op = "createProduct"
    /\ HeldSKU(local[w].before.products, local[w].sku, NoId)
    /\ local[w].result = "ConflictError"

\* C8: deleteProduct on a product with currentStock > 0 fails with
\* ConflictError and changes neither the product nor the audit log; on a
\* product with currentStock = 0 it succeeds and changes only isActive (and the
\* updatedAt stamp) of that product.
C8_DeleteGuard ==
  \A w \in Workers :
    (Returned(w) /\ local[w].op = "deleteProduct"
       /\ local[w].before.products[local[w].productId].exists)
    => LET f == local[w]
           docs == f.before.products
           own == docs[f.productId]
       IN  /\ (own.hasStock /\ own.currentStock > 0) => RejectedUnchanged(f)
           /\ (own.hasStock /\ own.currentStock = 0) =>
                /\ f.result = "ok"
                /\ ~products[f.productId].isActive
                /\ products =
                     [docs EXCEPT ![f.productId] =
                        [own EXCEPT !.isActive = FALSE,
                                    !.updatedAt = products[f.productId].updatedAt]]

\* C8 happens: a deleteProduct of a product in stock was rejected.
C8_Witness ==
  \E w \in Workers :
    /\ Returned(w)
    /\ local[w].op = "deleteProduct"
    /\ local[w].before.products[local[w].productId].exists
    /\ local[w].before.products[local[w].productId].isActive
    /\ local[w].before.products[local[w].productId].currentStock > 0
    /\ local[w].result = "ConflictError"

AlertTypes == {"low_stock", "out_of_stock", "overstock"}

AtMostOneActive(alerts) ==
  \A pid \in Ids, type \in AlertTypes : Cardinality(ActiveAlerts(alerts, pid, type)) <= 1

\* Worker w runs checkStockLevels in this step.
Evaluates(w) == pc[w] \in {"us_alerts", "up_alerts"} /\ pc'[w] # pc[w]

\* C10: every (productId, type) pair has at most one active alert in every
\* reachable state, and an evaluation that finds an active alert whose snapshot
\* is the product's present stock and thresholds creates no alert: it keeps
\* that alert active and refreshes its snapshot and timestamp.
C10_OneActiveAlert ==
  /\ AtMostOneActive(stockAlerts)
  /\ [][/\ AtMostOneActive(stockAlerts')
        /\ \A w \in Workers :
             Evaluates(w) =>
               LET pid == local[w].productId
                   d == products[pid]
               IN  \A k \in DOMAIN stockAlerts :
                     (/\ stockAlerts[k].productId = pid
                      /\ stockAlerts[k].status = "active"
                      /\ d.hasStock
                      /\ stockAlerts[k].thresholds =
                           [current |-> d.currentStock, minimum |-> d.minStock,
                            maximum |-> d.maxStock])
                     => /\ Len(stockAlerts') = Len(stockAlerts)
                        /\ stockAlerts'[k] = [stockAlerts[k] EXCEPT !.updatedAt = clock]]_vars

\* C10 happens: a low_stock alert was re-affirmed by a later evaluation.
C10_Witness ==
  \E k \in DOMAIN stockAlerts :
    /\ stockAlerts[k].status = "active"
    /\ stockAlerts[k].type = "low_stock"
    /\ stockAlerts[k].updatedAt > stockAlerts[k].createdAt

\* The alert type the decision order of section 4.3 gives for a product.
BreachOf(d) ==
  IF ~d.hasStock THEN "none"
  ELSE IF d.currentStock = 0 THEN "out_of_stock"
  ELSE IF 0 < d.currentStock /\ d.currentStock <= d.minStock THEN "low_stock"
  ELSE IF d.maxStock > 0 /\ d.currentStock >= d.maxStock THEN "overstock"
  ELSE "none"

PriorityOf(d) ==
  IF d.currentStock = 0 THEN "critical"
  ELSE IF 0 < d.currentStock /\ d.currentStock <= d.minStock
    THEN (IF 2 * d.currentStock <= d.minStock THEN "critical" ELSE "high")
  ELSE "low"

\* C11: an evaluation applies the rules in order, first match wins: stock 0
\* leaves an active out_of_stock alert of priority critical; 0 < stock <=
\* minStock an active low_stock alert, critical when stock <= minStock/2 and
\* high otherwise; stock >= maxStock > 0 an active overstock alert of priority
\* low; an alert it creates is of the matching type only; with no match every
\* active alert of the product is resolved.
C11_EvaluatorRules ==
  [][\A w \in Workers :
       Evaluates(w) =>
         LET pid == local[w].productId
             d == products[pid]
             type == BreachOf(d)
         IN  IF type = "none"
               THEN /\ Len(stockAlerts') = Len(stockAlerts)
                    /\ \A k \in DOMAIN stockAlerts' :
                         stockAlerts'[k].productId = pid =>
                           /\ stockAlerts'[k].status # "active"
                           /\ stockAlerts[k].status = "active" =>
                                stockAlerts'[k].status = "resolved"
               ELSE /\ \E k \in ActiveAlerts(stockAlerts', pid, type) :
                         /\ stockAlerts'[k].priority = PriorityOf(d)
                         /\ stockAlerts'[k].thresholds.current = d.currentStock
                    /\ \A k \in DOMAIN stockAlerts' \ DOMAIN stockAlerts :
                         stockAlerts'[k].type = type /\ stockAlerts'[k].productId = pid]_vars

\* C11 happens: an evaluation left an active low_stock alert of priority critical.
C11_Witness ==
  \E w \in Workers, k \in DOMAIN stockAlerts :
    /\ Returned(w)
    /\ local[w].op = "updateStock"
    /\ stockAlerts[k].status = "active"
    /\ stockAlerts[k].type = "low_stock"
    /\ stockAlerts[k].priority = "critical"
    /\ stockAlerts[k].updatedAt > 2

\* C12: when a product with an active low_stock alert is evaluated at
\* currentStock = 0, the evaluation creates no alert: afterwards the product
\* has exactly one active out_of_stock alert, of priority critical, and no
\* active low_stock alert.
C12_LowStockConverted ==
  [][\A w \in Workers :
       (/\ Evaluates(w)
        /\ products[local[w].productId].hasStock
        /\ products[local[w].productId].currentStock = 0
        /\ ActiveAlerts(stockAlerts, local[w].productId, "low_stock") # {})
       => LET pid == local[w].productId
              out == ActiveAlerts(stockAlerts', pid, "out_of_stock")
          IN  /\ Len(stockAlerts') = Len(stockAlerts)
              /\ Cardinality(out) = 1
              /\ \A k \in out : stockAlerts'[k].priority = "critical"
              /\ ActiveAlerts(stockAlerts', pid, "low_stock") = {}]_vars

\* C12 happens: the low_stock alert of a product was converted when an
\* updateStock brought the product from a positive stock to 0.
C12_Witness ==
  \E w \in Workers :
    /\ Returned(w)
    /\ local[w].op = "updateStock"
    /\ local[w].result = "ok"
    /\ local[w].product.currentStock > 0
    /\ local[w].product.currentStock <= local[w].product.minStock
    /\ local[w].newStock = 0
    /\ Len(stockAlerts) = 1
    /\ stockAlerts[1].type = "out_of_stock"
    /\ stockAlerts[1].status = "active"
    /\ stockAlerts[1].createdAt = 2

AlertStatuses == {"active", "resolved", "ignored"}

\* C13: an alert instance is never removed and its status only moves active ->
\* active, active -> resolved or active -> ignored; a resolved or ignored
\* alert is never changed again; an alert is created active; and an evaluation
\* that finds a breach while the product has no active alert appends a new
\* active alert of the breached type and leaves the terminal ones as they are.
C13_AlertLifecycle ==
  [][/\ Len(stockAlerts') >= Len(stockAlerts)
     /\ \A k \in DOMAIN stockAlerts :
          /\ stockAlerts'[k].status \in AlertStatuses
          /\ stockAlerts[k].status # "active" => stockAlerts'[k] = stockAlerts[k]
     /\ \A k \in DOMAIN stockAlerts' \ DOMAIN stockAlerts : stockAlerts'[k].status = "active"
     /\ \A w \in Workers :
          (/\ Evaluates(w)
           /\ BreachOf(products[local[w].productId]) # "none"
           /\ \A k \in DOMAIN stockAlerts :
                stockAlerts[k].productId = local[w].productId => stockAlerts[k].status # "active")
          => /\ Len(stockAlerts') = Len(stockAlerts) + 1
             /\ stockAlerts'[Len(stockAlerts')].productId = local[w].productId
             /\ stockAlerts'[Len(stockAlerts')].type = BreachOf(products[local[w].productId])
             /\ stockAlerts'[Len(stockAlerts')].status = "active"]_vars

\* C13 happens: a product has a resolved or ignored alert and a later, active
\* alert of the same type.
C13_Witness ==
  \E j \in DOMAIN stockAlerts, k \in DOMAIN stockAlerts :
    /\ j < k
    /\ stockAlerts[j].productId = stockAlerts[k].productId
    /\ stockAlerts[j].type = stockAlerts[k].type
    /\ stockAlerts[j].status \in {"resolved", "ignored"}
    /\ stockAlerts[k].status = "active"

\* C14: a mutation whose product write has committed is reported as
\* successful and its write is kept, also when checkStockLevels or
\* auditService.log fails afterwards.
C14_FailureAfterCommitHidden ==
  \A w \in Workers :
    (/\ Returned(w)
     /\ local[w].op \in {"updateStock", "updateProduct"}
     /\ local[w].written.exists)
    => /\ local[w].result = "ok"
       /\ products[local[w].productId] = local[w].written

\* The operations of the product service that write products.
Mutating ==
  {"createProduct", "updateProduct", "deleteProduct", "updateStock", "bulkUpdateProducts"}

\* The products a returned request changed (requests run one at a time).
MutatedBy(f) == {p \in Ids : products[p] # f.before.products[p]}

\* C15: a successful mutating operation of the product service has appended
\* exactly one audit entry per product it changed, each naming the actor and
\* the product; a failed one has appended none; and in every step the audit
\* log only grows at its end, and a step that appends to it changes no product,
\* movement or alert.
C15_OneAuditEntryPerMutation ==
  /\ [](\A w \in Workers :
          (Returned(w) /\ local[w].op \in Mutating) =>
            LET f == local[w]
                old == Len(f.before.auditLogs)
            IN  IF f.result = "ok"
                  THEN /\ Len(auditLogs) = old + Cardinality(MutatedBy(f))
                       /\ \A p \in MutatedBy(f) :
                            \E k \in (old + 1)..Len(auditLogs) :
                              auditLogs[k].resourceId = p /\ auditLogs[k].userId = w
                  ELSE auditLogs = f.before.auditLogs)
  /\ [][/\ Len(auditLogs') >= Len(auditLogs)
        /\ SubSeq(auditLogs', 1, Len(auditLogs)) = auditLogs
        /\ auditLogs' # auditLogs =>
             UNCHANGED <<products, stockMovements, stockAlerts>>]_vars

\* Worker w's request reads, in this step, a product id that holds no document.
ReadsMissing(w) ==
  LET f == local'[w] IN
    \/ /\ pc[w] = "idle" /\ local'[w] # local[w]
       /\ \/ /\ f.op \in {"getProductById", "updateProduct", "deleteProduct", "updateStock"}
             /\ ~products[f.productId].exists
          \/ /\ f.op = "transferStock"
             /\ ~products[f.productId].exists \/ ~products[f.toId].exists
          \/ /\ f.op = "bulkUpdateProducts"
             /\ ~products[f.updates[1].id].exists
    \/ /\ pc[w] = "bu_read" /\ pc'[w] # pc[w]
       /\ ~products[f.updates[Len(local[w].batch) + 1].id].exists

\* C16: an operation that reads a product id which holds no document
\* (getProductById, updateProduct, deleteProduct, updateStock,
\* bulkUpdateProducts, transferStock) fails with NotFoundError and changes no
\* product, movement, alert or audit entry.
C16_MissingProductNotFound ==
  [][\A w \in Workers :
       ReadsMissing(w) =>
         /\ local'[w].result = "NotFoundError"
         /\ UNCHANGED <<products, stockMovements, stockAlerts, auditLogs>>]_vars

\* C17: the set of createProduct stores, under an id that held no document,
\* a product with currentStock = 0 and isActive = true whatever inventory the
\* request carries, and no stock movement names the new product.
C17_CreatedWithZeroStock ==
  [][\A w \in Workers :
       (pc[w] = "cp_set" /\ pc'[w] = "cp_audit") =>
         LET id == local'[w].productId IN
           /\ ~products[id].exists
           /\ products'[id].exists
           /\ products'[id].hasStock /\ products'[id].currentStock = 0
           /\ products'[id].isActive
           /\ products'[id].minStock = local[w].inventory.minStock
           /\ products'[id].maxStock = local[w].inventory.maxStock
           /\ \A k \in DOMAIN stockMovements' :
                stockMovements'[k].fromProductId # id /\ stockMovements'[k].toProductId # id]_vars

\* C17 happens: a product was created from a request with minStock > 0 while
\* the ledger held a movement.
C17_Witness ==
  \E w \in Workers :
    /\ Returned(w)
    /\ local[w].op = "createProduct"
    /\ local[w].result = "ok"
    /\ local[w].inventory.minStock > 0
    /\ local[w].written.currentStock = 0
    /\ stockMovements # <<>>

\* The operations that are not part of the stock-mutation path.
NotStockPath == {"updateProduct", "bulkUpdateProducts", "deleteProduct"}

\* C18: a step of updateProduct (also with an inventory object in the patch),
\* bulkUpdateProducts or deleteProduct leaves the stored
\* inventory.currentStock of every product as it was.
C18_OnlyStockPathWritesStock ==
  [][\A w \in Workers :
       (local'[w].op \in NotStockPath /\ (pc'[w] # pc[w] \/ local'[w] # local[w]))
       => \A p \in Ids :
            products[p].exists =>
              /\ products'[p].hasStock = products[p].hasStock
              /\ products'[p].currentStock = products[p].currentStock]_vars

\* Frame b is a stock-out that undoes the stock-in of frame a: both are
\* successful updateStock calls on one product, a raised the stock by q > 0,
\* b read the very document a wrote and lowered the stock by the same q.
RoundTrip(a, b) ==
  /\ a.op = "updateStock" /\ b.op = "updateStock"
  /\ a.result = "ok" /\ b.result = "ok"
  /\ a.productId = b.productId
  /\ a.delta > 0
  /\ b.delta = -a.delta
  /\ b.product = a.written

\* C19: a stock-in of q followed by a stock-out of the same q, with no other
\* mutation in between, leaves currentStock at its value before the two and
\* has appended exactly two ledger entries of the product whose signed deltas
\* sum to 0.
C19_RoundTripRestores ==
  \A v \in Workers, w \in Workers :
    (v # w /\ Returned(v) /\ Returned(w) /\ RoundTrip(local[v], local[w])) =>
      LET a == local[v]
          b == local[w]
          p == a.productId
          old == Len(SelectSeq(a.before.stockMovements,
                               LAMBDA m : m.fromProductId = p \/ m.toProductId = p))
          ms == MovementsOf(p)
      IN  /\ StockOf(b.written) = StockOf(a.product)
          /\ Len(ms) = old + 2
          /\ \A k \in (old + 1)..Len(ms) : {"stockBefore", "stockAfter"} \subseteq DOMAIN ms[k]
          /\ (ms[old + 1].stockAfter - ms[old + 1].stockBefore)
               + (ms[old + 2].stockAfter - ms[old + 2].stockBefore) = 0

Lookups ==
  {"getProductBySKU", "getProductByBarcode", "getProducts", "searchProducts",
   "getLowStockProducts"}

\* A soft-deleted product of docs holds the sku.
SoftDeletedHolds(docs, sku) ==
  \E i \in Ids : docs[i].exists /\ ~docs[i].isActive /\ docs[i].sku = sku

C21_LedgerAppendOnly ==
  [][/\ Len(stockMovements') >= Len(stockMovements)
     /\ SubSeq(stockMovements', 1, Len(stockMovements)) = stockMovements]_vars

\* The error kinds of section 7.
ErrorKinds == {"ValidationError", "NotFoundError", "ConflictError", "DatabaseError"}

\* C22: a request that has returned either succeeded or failed with one of
\* the four error kinds ValidationError, NotFoundError, ConflictError or
\* DatabaseError; no generic Error reaches the caller.
C22_OnlyFourErrorKinds ==
  \A w \in Workers :
    Returned(w) => local[w].result \in {"ok"} \cup ErrorKinds

\* C23: a stock mutation never commits over a conflicting commit (it would
\* retry its read-compute-write cycle, and give up with ConflictError and no
\* stock change after its last attempt), and under fair scheduling every
\* request that has started returns.
C23_RetryAndTerminate ==
  /\ [][\A w \in Workers :
          (pc[w] = "us_set" /\ pc'[w] # pc[w]) =>
            products[local[w].productId] = local[w].product]_vars
  /\ \A w \in Workers : (pc[w] # "idle") ~> (pc[w] = "idle")

\* The total order over product ids (lexicographic).
IdRank(i) == IF i = "p1" THEN 1 ELSE IF i = "p2" THEN 2 ELSE 3

\* C24: transferStock takes its two product keys in a fixed total order over
\* product ids, not in call order, so that transfers in opposite directions
\* cannot deadlock: under fair scheduling every transfer returns.
C24_TransferKeyOrder ==
  /\ [](\A w \in Workers :
          local[w].op = "transferStock" =>
            \A j \in DOMAIN local[w].acquired, k \in DOMAIN local[w].acquired :
              j < k => IdRank(local[w].acquired[j]) <= IdRank(local[w].acquired[k]))
  /\ \A w \in Workers :
       (pc[w] # "idle" /\ local[w].op = "transferStock") ~> (pc[w] = "idle")

\* deleteProduct and updateStock alone, in parallel.
BeginDeleteStock(w) ==
  \/ \E productId \in Ids : DeleteProduct(w, productId)
  \/ \E productId \in Ids, newStock \in NewStockValues : UpdateStock(w, productId, newStock)

StepDeleteStock(w) ==
  \/ DeleteSet(w)
  \/ DeleteAudit(w)
  \/ UpdateStockSet(w)
  \/ UpdateStockAlerts(w)
  \/ UpdateStockAudit(w)

NextDeleteStock == \E w \in Workers : (Budget /\ BeginDeleteStock(w)) \/ StepDeleteStock(w)

SpecDeleteStock == Init /\ [][NextDeleteStock]_vars

\* C25: a product is soft-deleted only when its stock is 0, also when
\* deleteProduct runs concurrently with updateStock: the stored product holds
\* stock 0 when deleteProduct commits isActive = false, and that write leaves
\* the stored stock as it is, so a stock value committed after deleteProduct
\* read the product is not overwritten.
C25_DeleteOnlyAtZeroStock ==
  [][\A w \in Workers :
       (pc[w] = "dp_set" /\ pc'[w] # pc[w]) =>
         /\ StockOf(products[local[w].productId]) = 0
         /\ StockOf(products'[local[w].productId]) = StockOf(products[local[w].productId])]_vars

\* C26: run one at a time, in any order, createProduct, updateProduct,
\* bulkUpdateProducts and deleteProduct leave SKUs and barcodes unique among
\* active products: once every request has returned, no two active products
\* share a SKU and no two share a barcode.
C26_SequentialUniqueness ==
  AllIdle =>
    \A a \in Ids :
      (products[a].exists /\ products[a].isActive) =>
        /\ ~HeldSKU(products, products[a].sku, a)
        /\ products[a].barcode # NoBarcode => ~HeldBarcode(products, products[a].barcode, a)

\* The audit entries of docs' log written for the requests of user w.
OwnAudits(log, w) == Cardinality({k \in DOMAIN log : log[k].userId = w})

\* Worker w takes a step.
StepOf(w) == pc'[w] # pc[w] \/ local'[w] # local[w]

\* The request of frame f calls checkStockLevels after its write.
EvaluatesAlerts(f) ==
  f.op = "updateStock" \/ (f.op = "updateProduct" /\ f.inventory # NoInventory)

\* C27: within one mutating operation, the alert evaluation and the audit
\* entry come only after the product write has been committed, the alert
\* evaluation comes before the audit entry, and an operation that has not
\* written (it failed before its write) changes no alert and appends no entry.
C27_AlertsAndAuditAfterWrite ==
  [][\A w \in Workers :
       /\ Evaluates(w) =>
            /\ local[w].written.exists
            /\ OwnAudits(auditLogs, w) = OwnAudits(local[w].before.auditLogs, w)
       /\ (StepOf(w) /\ OwnAudits(auditLogs', w) > OwnAudits(auditLogs, w)) =>
            /\ local[w].written.exists
            /\ EvaluatesAlerts(local[w]) => local[w].evaluated
       /\ (StepOf(w) /\ ~local'[w].written.exists) =>
            /\ stockAlerts' = stockAlerts
            /\ auditLogs' = auditLogs]_vars

\* An updateStock has returned after its write, an alert evaluation that
\* touched an alert of the product, and its audit entry.
C27_Witness ==
  \E w \in Workers :
    /\ Returned(w)
    /\ local[w].op = "updateStock"
    /\ local[w].result = "ok"
    /\ local[w].written.exists
    /\ local[w].evaluated
    /\ \E k \in DOMAIN stockAlerts :
         /\ stockAlerts[k].productId = local[w].productId
         /\ stockAlerts[k].updatedAt >= local[w].written.updatedAt
    /\ OwnAudits(auditLogs, w) = OwnAudits(local[w].before.auditLogs, w) + 1

\* The stock and thresholds of d breach the threshold of an alert of this type.
Breached(type, d) ==
  /\ d.hasStock
  /\ CASE type = "out_of_stock" -> d.currentStock = 0
       [] type = "low_stock" -> 0 < d.currentStock /\ d.currentStock <= d.minStock
       [] type = "overstock" -> d.maxStock > 0 /\ d.currentStock >= d.maxStock
       [] OTHER -> FALSE

\* C28: after every alert evaluation the active alerts of the product agree
\* with its current stock: an active out_of_stock alert implies stock 0, an
\* active low_stock alert implies 0 < stock <= minStock, an active overstock
\* alert implies stock >= maxStock > 0; an alert whose threshold is no longer
\* breached is no longer active.
C28_ActiveAlertsAgreeWithStock ==
  [][\A w \in Workers :
       Evaluates(w) =>
         \A k \in DOMAIN stockAlerts' :
           (stockAlerts'[k].productId = local[w].productId
              /\ stockAlerts'[k].status = "active")
           => Breached(stockAlerts'[k].type, products[local[w].productId])]_vars

\* The sum of currentStock over the products S of docs.
RECURSIVE TotalStock(_, _)
TotalStock(docs, S) ==
  IF S = {} THEN 0
  ELSE LET i == CHOOSE x \in S : TRUE
       IN  StockOf(docs[i]) + TotalStock(docs, S \ {i})

\* C29: a successful transferStock(from, to, q) conserves stock: the sum of
\* currentStock over all products is the same before and after, also when
\* from = to, where the stock of the product is left unchanged.
C29_TransferConservesStock ==
  [][\A w \in Workers, from \in Ids, to \in Ids, q \in Quantities :
       (TransferStock(w, from, to, q) /\ local'[w].result = "ok") =>
         /\ TotalStock(products', Ids) = TotalStock(products, Ids)
         /\ from = to => StockOf(products'[from]) = StockOf(products[from])]_vars

\* The stored document d carries the patch of the entry update.
Patched(d, update) ==
  /\ update.sku # Absent => d.sku = update.sku
  /\ update.barcode # Absent => d.barcode = update.barcode
  /\ update.inventory # NoInventory =>
       /\ d.minStock = update.inventory.minStock
       /\ d.maxStock = update.inventory.maxStock

\* C30: bulkUpdateProducts is all or nothing: when an id of the batch does not
\* exist (or a step fails before the commit) no product is changed; when it
\* succeeds every listed product is stored under its id with its patch applied
\* and with the createdAt and createdBy it had.
C30_BulkAllOrNothing ==
  \A w \in Workers :
    (Returned(w) /\ local[w].op = "bulkUpdateProducts") =>
      IF local[w].result = "ok"
        THEN \A j \in DOMAIN local[w].updates :
               LET update == local[w].updates[j]
                   was == local[w].before.products[update.id]
                   d == products[update.id]
               IN  /\ d.exists
                   /\ Patched(d, update)
                   /\ d.createdAt = was.createdAt
                   /\ d.createdBy = was.createdBy
        ELSE products = local[w].before.products

====
